---- MODULE Spec2Model ----
(***************************************************************************)
(* Expense forecasting engine: the training script (train_model.py), the   *)
(* data preparation (generate_training_data.py) and the serving process    *)
(* (api_server.py).                                                        *)
(*                                                                         *)
(* Numbers.  Currency amounts and model outputs are integers counting      *)
(* thousandths of the currency unit, so "2 decimal places" is "a multiple  *)
(* of 10".  A feature value is an exact fraction [n, d] (d > 0), because   *)
(* rolling_avg_3 is a mean.  Strings that the code inspects (month labels, *)
(* amounts sent as text) are sequences of character codes.                 *)
(***************************************************************************)
EXTENDS Integers, Sequences, FiniteSets, TLC

VARIABLES
    predictor,   \* the ExpensePredictor instance of the training script
    file,        \* expense_predictor_model.pkl on disk
    server,      \* the serving process: "down", "serving" or "exited"
    model_data,  \* api_server.model_data (module global)
    request,     \* the call in flight: an HTTP request or a direct call
    response,    \* what the last call returned (or raised)
    locals       \* local variables of the last inference call, as it ended

vars == <<predictor, file, server, model_data, request, response, locals>>

-----------------------------------------------------------------------------
(* Bounds of the model *)

MaxLen == 4

-----------------------------------------------------------------------------
(* Values *)

None == [t |-> "None"]

EXPENSE_CATEGORIES ==
    << "Groceries", "Transportation", "Entertainment", "Dining Out",
       "Utilities", "Shopping", "Healthcare", "Subscriptions" >>

Range(s) == { s[i] : i \in DOMAIN s }

CatSet == Range(EXPENSE_CATEGORIES)

\* JSON values of an amount field: a number, a text, or null.
Num(n) == [t |-> "num", n |-> n, s |-> << >>]
Str(s) == [t |-> "str", n |-> 0, s |-> s]
Null == [t |-> "null", n |-> 0, s |-> << >>]
NaN == [t |-> "nan", n |-> 0, s |-> << >>]

\* strftime('%Y-%m') / the "2024-01" month labels of the request format.
MonthStr(y, m) ==
    << 48 + (y \div 1000), 48 + ((y \div 100) % 10), 48 + ((y \div 10) % 10),
       48 + (y % 10), 45, 48 + (m \div 10), 48 + (m % 10) >>

\* pd.to_datetime of a "YYYY-MM" label.
ToDatetime(s) ==
    [ year |-> 1000 * (s[1] - 48) + 100 * (s[2] - 48) + 10 * (s[3] - 48) + (s[4] - 48),
      month |-> 10 * (s[6] - 48) + (s[7] - 48) ]

\* Python's order on str: lexicographic by character code.
StrLess(a, b) ==
    \/ \E i \in 1..Len(a) :
          /\ i <= Len(b)
          /\ a[i] < b[i]
          /\ \A j \in 1..(i - 1) : a[j] = b[j]
    \/ /\ Len(a) < Len(b)
       /\ \A j \in 1..Len(a) : a[j] = b[j]

IsDigits(s) == Len(s) > 0 /\ \A i \in 1..Len(s) : s[i] \in 48..57

RECURSIVE DigitsValue(_)
DigitsValue(s) ==
    IF s = << >> THEN 0
    ELSE 10 * DigitsValue(SubSeq(s, 1, Len(s) - 1)) + (s[Len(s)] - 48)

\* Python round(x, 2) on thousandths: nearest multiple of 10, ties to even.
Round2(x) ==
    LET q == x \div 10
        r == x % 10
    IN  IF r < 5 THEN 10 * q
        ELSE IF r > 5 THEN 10 * (q + 1)
        ELSE IF q % 2 = 0 THEN 10 * q ELSE 10 * (q + 1)

RECURSIVE SumSeq(_)
SumSeq(s) == IF s = << >> THEN 0 ELSE s[1] + SumSeq(Tail(s))

-----------------------------------------------------------------------------
(* Fractions *)

Frac(n, d) == [n |-> n, d |-> d]

FracEq(a, b) == a.n * b.d = b.n * a.d

\* floor of the mean of a non-empty sequence of fractions with denominators
\* dividing 6 (window lengths 1, 2, 3)
MeanFloor(vs) ==
    SumSeq([i \in 1..Len(vs) |-> vs[i].n * (6 \div vs[i].d)]) \div (6 * Len(vs))

Abs(x) == IF x < 0 THEN 0 - x ELSE x

-----------------------------------------------------------------------------
(* generate_training_data.py: the training corpus *)

TrainUsers == 2
TrainMonths == 6

CatIndex(c) == CHOOSE k \in 1..Len(EXPENSE_CATEGORIES) : EXPENSE_CATEGORIES[k] = c

\* The amounts of the corpus handed to train(): spending that varies with
\* the month, a category nobody uses (Subscriptions) and a category whose
\* amounts are refunds (Shopping, negative), as a CSV may hold.
RawAmount(u, i, c) ==
    IF c = "Groceries" THEN 20 + 7 * ((u + i) % 3)
    ELSE IF c = "Shopping" THEN 4 * (i % 3) - 13 - u
    ELSE IF c = "Subscriptions" THEN 0
    ELSE 7 * CatIndex(c) + 5 * ((i + u) % 2) + u

\* generate_user_data: one row per user and month, month_index counting from 0
RawRows ==
    [ r \in 1..(TrainUsers * TrainMonths) |->
        LET u == (r - 1) \div TrainMonths
            i == (r - 1) % TrainMonths
        IN  [ user_id |-> u,
              month_index |-> i,
              month |-> MonthStr(2024, i + 1),
              amt |-> [c \in CatSet |-> RawAmount(u, i, c)] ] ]

Suffixes == << "lag1", "lag2", "lag3", "rolling_avg_3" >>

\* Index in `rows` of the row of the same user with month_index i, or 0
RowOf(rows, u, i) ==
    IF \E r \in DOMAIN rows : rows[r].user_id = u /\ rows[r].month_index = i
    THEN CHOOSE r \in DOMAIN rows : rows[r].user_id = u /\ rows[r].month_index = i
    ELSE 0

\* groupby('user_id')[category].shift(lag), NaN filled with 0
ShiftLag(rows, r, c, lag) ==
    LET p == RowOf(rows, rows[r].user_id, rows[r].month_index - lag)
    IN  IF p = 0 THEN Frac(0, 1) ELSE Frac(rows[p].amt[c], 1)

\* groupby('user_id')[category].rolling(window=3, min_periods=1).mean():
\* the window ends at the row itself
RollingMean3(rows, r, c) ==
    LET win == { p \in DOMAIN rows :
                    /\ rows[p].user_id = rows[r].user_id
                    /\ rows[p].month_index \in
                         (rows[r].month_index - 2)..(rows[r].month_index) }
        RECURSIVE Total(_)
        Total(S) == IF S = {} THEN 0
                    ELSE LET p == CHOOSE q \in S : TRUE
                         IN  rows[p].amt[c] + Total(S \ {p})
    IN  Frac(Total(win), Cardinality(win))

create_features(rows) ==
    [ r \in DOMAIN rows |->
        [ user_id |-> rows[r].user_id,
          month_index |-> rows[r].month_index,
          month |-> rows[r].month,
          amt |-> rows[r].amt,
          feat |->
            [ col \in {<<"month_num">>} \cup (CatSet \X Range(Suffixes)) |->
                IF col = <<"month_num">> THEN Frac(ToDatetime(rows[r].month).month, 1)
                ELSE IF col[2] = "lag1" THEN ShiftLag(rows, r, col[1], 1)
                ELSE IF col[2] = "lag2" THEN ShiftLag(rows, r, col[1], 2)
                ELSE IF col[2] = "lag3" THEN ShiftLag(rows, r, col[1], 3)
                ELSE RollingMean3(rows, r, col[1]) ] ] ]

\* expense_training_data.csv
TrainingData == create_features(RawRows)

-----------------------------------------------------------------------------
(* train_model.py: ExpensePredictor *)

EmptyDict == << >>

\* ExpensePredictor.__init__
NewPredictor ==
    [ models |-> EmptyDict,
      scalers |-> EmptyDict,
      feature_columns |-> None,
      categories |-> EXPENSE_CATEGORIES ]

List(v) == [t |-> "list", v |-> v]

\* Mutant: month_num appended after the category columns
FeatureCols_MonthLast(categories) ==
    [ j \in 1..(4 * Len(categories) + 1) |->
        IF j = 4 * Len(categories) + 1 THEN <<"month_num">>
        ELSE << categories[((j - 1) \div 4) + 1], Suffixes[((j - 1) % 4) + 1] >> ]

\* prepare_features: the list feature_cols
FeatureCols(categories) ==
    [ j \in 1..(4 * Len(categories) + 1) |->
        IF j = 1 THEN <<"month_num">>
        ELSE << categories[((j - 2) \div 4) + 1], Suffixes[((j - 2) % 4) + 1] >> ]

\* df[feature_cols]: one positional row of values per row of df
SelectRows(rows, cols) ==
    [ r \in DOMAIN rows |-> [ j \in DOMAIN cols |-> rows[r].feat[cols[j]] ] ]

\* df[df['month_index'] >= 3]
FilterTrainRows(rows) == SelectSeq(rows, LAMBDA row : row.month_index >= 3)

\* train_test_split(X, y, test_size, random_state=42): the holdout has
\* ceil(n * test_size) rows, picked by a permutation that the fixed seed makes
\* the same on every call (here: the identity).  test_size is 1/test_den.
TestCount(n, test_den) == (n + test_den - 1) \div test_den

TestPart(seq, test_den) == SubSeq(seq, 1, TestCount(Len(seq), test_den))

TrainPart(seq, test_den) == SubSeq(seq, TestCount(Len(seq), test_den) + 1, Len(seq))

\* StandardScaler.fit: the per-column centre of the training partition
ScalerFit(X_train) ==
    [ mean |-> [ j \in DOMAIN X_train[1] |->
                   MeanFloor([ i \in DOMAIN X_train |-> X_train[i][j] ]) ] ]

\* StandardScaler.transform of one positional row
ScalerTransform(scaler, X) ==
    [ j \in DOMAIN X |-> Frac(X[j].n - scaler.mean[j] * X[j].d, X[j].d) ]

\* A fitted regressor, as a one-split regression tree on column `col` of the
\* scaled row: `lo` at or below the threshold, `hi` above it.
ModelPredict(model, X_scaled) ==
    IF X_scaled[model.col].n <= model.thr * X_scaled[model.col].d
    THEN model.lo ELSE model.hi

MeanOf(ys) == IF ys = << >> THEN 0 ELSE SumSeq(ys) \div Len(ys)

\* RandomForestRegressor(...).fit(X_train_scaled, y_train) for the category
\* at position k: splits its own lag1 column at the training mean.
ModelFit(X_train_scaled, y_train, k) ==
    LET col == 2 + 4 * (k - 1)
        idx == DOMAIN X_train_scaled
        left == { i \in idx : X_train_scaled[i][col].n <= 0 }
        Pick(S) == SelectSeq([ i \in idx |-> <<i, y_train[i]>> ],
                             LAMBDA pr : pr[1] \in S)
        Ys(S) == [ i \in DOMAIN Pick(S) |-> Pick(S)[i][2] ]
    IN  [ col |-> col,
          thr |-> 0,
          lo |-> IF left = {} THEN MeanOf(y_train) ELSE MeanOf(Ys(left)),
          hi |-> IF left = idx THEN MeanOf(y_train) ELSE MeanOf(Ys(idx \ left)) ]

\* mean_absolute_error
MeanAbsError(y, y_pred) ==
    IF y = << >> THEN 0
    ELSE SumSeq([ i \in DOMAIN y |-> Abs(y[i] - y_pred[i]) ]) \div Len(y)

\* r2_score as an exact fraction: 1 - SS_res / SS_tot
R2Score(y, y_pred) ==
    LET n == Len(y)
        tot == n * SumSeq([ i \in DOMAIN y |-> y[i] * y[i] ]) - SumSeq(y) * SumSeq(y)
        res == SumSeq([ i \in DOMAIN y |-> (y[i] - y_pred[i]) * (y[i] - y_pred[i]) ])
    IN  IF tot = 0 THEN (IF res = 0 THEN Frac(1, 1) ELSE Frac(0, 1))
        ELSE Frac(tot - n * res, tot)

\* One iteration of the loop of train(): everything computed for the
\* category at position k from the shared X and the rows.
TrainCategory(X, df_train, categories, k, test_den) ==
    LET category == categories[k]
        y == [ r \in DOMAIN df_train |-> df_train[r].amt[category] ]
        X_train == TrainPart(X, test_den)
        X_test == TestPart(X, test_den)
        y_train == TrainPart(y, test_den)
        y_test == TestPart(y, test_den)
        scaler == ScalerFit(X_train)
        X_train_scaled == [ i \in DOMAIN X_train |-> ScalerTransform(scaler, X_train[i]) ]
        X_test_scaled == [ i \in DOMAIN X_test |-> ScalerTransform(scaler, X_test[i]) ]
        model == ModelFit(X_train_scaled, y_train, k)
        y_pred_train == [ i \in DOMAIN X_train |-> ModelPredict(model, X_train_scaled[i]) ]
        y_pred_test == [ i \in DOMAIN X_test |-> ModelPredict(model, X_test_scaled[i]) ]
    IN  [ model |-> model,
          scaler |-> scaler,
          metrics |-> [ train_mae |-> MeanAbsError(y_train, y_pred_train),
                        test_mae |-> MeanAbsError(y_test, y_pred_test),
                        train_r2 |-> R2Score(y_train, y_pred_train),
                        test_r2 |-> R2Score(y_test, y_pred_test) ] ]

\* The loop of train(), in the order of self.categories, from position k on
RECURSIVE TrainLoop(_, _, _, _, _, _)
TrainLoop(self, results, X, df_train, k, test_den) ==
    IF k > Len(self.categories) THEN [ self |-> self, results |-> results ]
    ELSE LET category == self.categories[k]
             fit == TrainCategory(X, df_train, self.categories, k, test_den)
         IN  TrainLoop(
                 [ self EXCEPT !.models = (category :> fit.model) @@ @,
                               !.scalers = (category :> fit.scaler) @@ @ ],
                 (category :> fit.metrics) @@ results,
                 X, df_train, k + 1, test_den)

\* train(df, test_size=0.2): the predictor afterwards and the returned results
train(self, df, test_den) ==
    LET df_train == FilterTrainRows(df)
        cols == FeatureCols(self.categories)
        prepared == [ self EXCEPT !.feature_columns = List(cols) ]
        X == SelectRows(df_train, cols)
    IN  TrainLoop(prepared, EmptyDict, X, df_train, 1, test_den)

\* save(): the pickled dict
save(self) ==
    [ t |-> "dict",
      models |-> self.models,
      scalers |-> self.scalers,
      feature_columns |-> self.feature_columns,
      categories |-> self.categories ]

\* Mutant: the scalers filled from the entry of the models
load_ScalersFromModels(pickled) ==
    [ NewPredictor EXCEPT !.models = pickled.models,
                          !.scalers = pickled.models,
                          !.feature_columns = pickled.feature_columns,
                          !.categories = pickled.categories ]

\* ExpensePredictor.load(): a new predictor filled from the pickled dict
load(pickled) ==
    [ NewPredictor EXCEPT !.models = pickled.models,
                          !.scalers = pickled.scalers,
                          !.feature_columns = pickled.feature_columns,
                          !.categories = pickled.categories ]

-----------------------------------------------------------------------------
(* Inference: what both entry points share *)

Return(v) == [t |-> "return", value |-> v]
Raise(e) == [t |-> "raise", exc |-> e]

\* Mutant: the frame left in the order of the request
SortValues_Unsorted(rows) == { rows }

\* df.sort_values('month'): the default sort is not stable, so rows with
\* equal month labels may come out in any order.
SortValues(rows) ==
    { [ i \in DOMAIN rows |-> rows[p[i]] ] : p \in
        { q \in Permutations(DOMAIN rows) :
            \A i \in 1..(Len(rows) - 1) :
                ~ StrLess(rows[q[i + 1]].month, rows[q[i]].month) } }

\* Mutant: the first three rows instead of the last three
Tail3_Head(rows) == SubSeq(rows, 1, IF Len(rows) > 3 THEN 3 ELSE Len(rows))

\* df.tail(3)
Tail3(rows) == SubSeq(rows, IF Len(rows) > 3 THEN Len(rows) - 2 ELSE 1, Len(rows))

\* Mutant: the increment inside the modulus
NextMonthNum_IncFirst(last_month_date) == (last_month_date.month + 1) % 12

\* (last_month_date.month % 12) + 1
NextMonthNum(last_month_date) == (last_month_date.month % 12) + 1

\* The four entries of one category, from `values` = last_3_months[category]
LagEntries(values, suffix) ==
    LET n == Len(values)
    IN  IF suffix = "lag1" THEN (IF n >= 1 THEN Frac(values[n], 1) ELSE Frac(0, 1))
        ELSE IF suffix = "lag2" THEN (IF n >= 2 THEN Frac(values[n - 1], 1) ELSE Frac(0, 1))
        ELSE IF suffix = "lag3" THEN (IF n >= 3 THEN Frac(values[n - 2], 1) ELSE Frac(0, 1))
        ELSE Frac(SumSeq(values), n)

\* sum(predictions.values())
SumValues(d) ==
    LET RECURSIVE Total(_)
        Total(S) == IF S = {} THEN 0
                    ELSE LET k == CHOOSE q \in S : TRUE IN d[k] + Total(S \ {k})
    IN  Total(DOMAIN d)

\* Mutant: the rolling averages left out
FeatureKeys_NoRolling(cats) == {<<"month_num">>} \cup (cats \X {"lag1", "lag2", "lag3"})

\* The keys of the dict `features`: month_num, then four per category
FeatureKeys(cats) == {<<"month_num">>} \cup (cats \X Range(Suffixes))

\* round(sum(predictions.values()), 2)
TotalOf(predictions) == Round2(SumValues(predictions))

\* Mutant: the history threshold one too low
InsufficientHistory_Below2(n) == n < 2

\* Mutant: the history threshold one too high
InsufficientHistory_Below4(n) == n < 4

\* len(user_history) < 3
InsufficientHistory(n) == n < 3

\* Mutant: the clamp without the rounding
ClampRound_NoRound(pred) == IF pred > 0 THEN pred ELSE 0

\* Mutant: the rounding without the clamp
ClampRound_NoClamp(pred) == Round2(pred)

\* max(0, round(pred, 2))
ClampRound(pred) == IF Round2(pred) > 0 THEN Round2(pred) ELSE 0

\* pd.DataFrame([features])[feature_columns]: the positional row and its
\* labels, or KeyError when feature_columns is None or names a missing key
SelectFeatures(features, feature_columns) ==
    IF feature_columns.t = "None" THEN Raise("KeyError")
    ELSE IF \E j \in DOMAIN feature_columns.v : feature_columns.v[j] \notin DOMAIN features
    THEN Raise("KeyError")
    ELSE Return([ cols |-> feature_columns.v,
                  row |-> [ j \in DOMAIN feature_columns.v |->
                              features[feature_columns.v[j]] ] ])

NoLocals == [t |-> "none"]

\* The prediction loop over `categories`, from position k on.  `active` is
\* the set of categories that get a model prediction.  Stops at the first
\* category whose scaler or model is missing (KeyError).
RECURSIVE PredictLoop(_, _, _, _, _, _, _, _)
PredictLoop(models, scalers, categories, active, X, k, predictions, seen) ==
    IF k > Len(categories)
    THEN [ t |-> "done", predictions |-> predictions, seen |-> seen ]
    ELSE LET category == categories[k]
         IN  IF category \notin active
             THEN PredictLoop(models, scalers, categories, active, X, k + 1,
                              (category :> 0) @@ predictions, seen)
             ELSE IF category \notin DOMAIN scalers \/ category \notin DOMAIN models
             THEN [ t |-> "KeyError", predictions |-> predictions, seen |-> seen ]
             ELSE LET X_scaled == ScalerTransform(scalers[category], X)
                      pred == ModelPredict(models[category], X_scaled)
                  IN  PredictLoop(models, scalers, categories, active, X, k + 1,
                                  (category :> ClampRound(pred)) @@ predictions,
                                  Append(seen, [ category |-> category,
                                                 X_scaled |-> X_scaled,
                                                 pred |-> pred ]))

-----------------------------------------------------------------------------
(* train_model.py: ExpensePredictor.predict_next_month *)

\* user_history is a DataFrame: its column labels and its rows
\* [month, amt], amt giving a number for every category column.
predict_next_month(self, user_history, sorted) ==
    IF InsufficientHistory(Len(user_history.rows))
    THEN [ out |-> Raise("ValueError"), locals |-> NoLocals ]
    ELSE
    LET last_3_months == Tail3(sorted)
        last_month_date == ToDatetime(sorted[Len(sorted)].month)
        next_month_num == NextMonthNum(last_month_date)
        cats == Range(self.categories)
        features ==
            [ col \in FeatureKeys(cats) |->
                IF col = <<"month_num">> THEN Frac(next_month_num, 1)
                ELSE IF col[1] \in user_history.columns
                THEN LagEntries([ i \in DOMAIN last_3_months |->
                                    last_3_months[i].amt[col[1]] ], col[2])
                ELSE Frac(0, 1) ]
        X == SelectFeatures(features, self.feature_columns)
        base == [ t |-> "locals", entry |-> "predict_next_month",
                  sorted |-> sorted, features |-> features,
                  month_num |-> next_month_num,
                  X |-> X, seen |-> << >> ]
    IN  IF X.t = "raise" THEN [ out |-> X, locals |-> base ]
        ELSE
        LET loop == PredictLoop(self.models, self.scalers, self.categories, cats,
                                X.value.row, 1, EmptyDict, << >>)
            done == [ base EXCEPT !.seen = loop.seen ]
        IN  IF loop.t = "KeyError" THEN [ out |-> Raise("KeyError"), locals |-> done ]
            ELSE [ out |-> Return(("total" :> TotalOf(loop.predictions))
                                  @@ loop.predictions),
                   locals |-> done ]

-----------------------------------------------------------------------------
(* api_server.py: predict_expenses *)

\* pd.DataFrame(user_history): the column labels are the keys that occur in
\* some record; a record without a key holds NaN there
DataFrame(user_history) ==
    LET columns == UNION { DOMAIN user_history[i] : i \in DOMAIN user_history }
    IN  [ columns |-> columns,
          rows |-> [ i \in DOMAIN user_history |->
                       [ k \in columns |->
                           IF k \in DOMAIN user_history[i]
                           THEN user_history[i][k] ELSE NaN ] ] ]

\* pd.to_numeric(x, errors='coerce'): a number, or NaN
ToNumeric(x) ==
    IF x.t = "num" THEN x
    ELSE IF x.t = "str" /\ IsDigits(x.s) THEN Num(DigitsValue(x.s))
    ELSE NaN

\* Mutant: missing cells filled with 1
FillNa_One(x) == IF x.t \in {"nan", "null"} THEN Num(1) ELSE x

\* .fillna(0) on one cell (JSON null arrives as None, which pandas treats as
\* missing)
FillNa(x) == IF x.t \in {"nan", "null"} THEN Num(0) ELSE x

\* pd.to_numeric(df[cat], errors='coerce').fillna(0), after df.fillna(0)
Coerce(x) == FillNa(ToNumeric(FillNa(x))).n

\* The frame after lines 62-82: every category is a numeric column
NumericRows(df) ==
    [ i \in DOMAIN df.rows |->
        [ month |-> df.rows[i]["month"],
          amt |-> [ cat \in CatSet |->
                      IF cat \in df.columns THEN Coerce(df.rows[i][cat]) ELSE 0 ] ] ]

\* df[cat].sum()
ColumnSum(rows, cat) == SumSeq([ i \in DOMAIN rows |-> rows[i].amt[cat] ])

\* Mutant: every category that has a column counts as used
UserCategories_AnyColumn(df) == { cat \in CatSet : cat \in df.columns }

\* user_categories: the categories with df[cat].sum() > 0
UserCategories(df) ==
    { cat \in CatSet : cat \in df.columns /\ ColumnSum(NumericRows(df), cat) > 0 }

\* floor of the square root
ISqrt(x) == CHOOSE r \in 0..x : r * r <= x /\ (r + 1) * (r + 1) > x

\* Mutant: the variance branch entered from 5 records on
HasLongHistory_From5(n) == n >= 5

\* Mutant: the variance branch entered only above 6 records
HasLongHistory_Above6(n) == n > 6

\* len(user_history) >= 6
HasLongHistory(n) == n >= 6

\* Mutant: every category enters the average
ConfidenceCategories_All(rows) == CatSet

\* The categories that get a cv: `cat in df.columns and df[cat].sum() > 0`
\* (every category is a column by line 79)
ConfidenceCategories(rows) == { cat \in CatSet : ColumnSum(rows, cat) > 0 }

\* The resolution at which a coefficient of variation is bounded: 1/CvScale
CvScale == 50

\* n^2 (n - 1) times the sample variance of the column: n (n Q - S^2)
SpreadOf(rows, cat) ==
    LET n == Len(rows)
        S == ColumnSum(rows, cat)
        Q == SumSeq([ i \in DOMAIN rows |-> rows[i].amt[cat] * rows[i].amt[cat] ])
    IN  n * (n * Q - S * S)

\* cv = df[cat].std() / (df[cat].mean() + 1e-6) of a column of sum S > 0, as
\* integers lo, hi with lo < CvScale * cv < hi, or lo = hi = 0 when cv = 0.
\* std is the sample deviation: std^2 = W / (n^2 (n - 1)), W as in SpreadOf;
\* mean = S / n.  F is the floor of CvScale * std / mean.  Amounts count
\* thousandths, so 1e-6 is 1/1000 here and
\*     cv = (std / mean) * (1 - n / (1000 S + n)),
\* which is above (std / mean) * (1 - n / (1000 S)) and below std / mean.
CvBounds(rows, cat) ==
    LET n == Len(rows)
        S == ColumnSum(rows, cat)
        W == SpreadOf(rows, cat)
        den == (n - 1) * S * S
        q == (CvScale * CvScale * W) \div den
        F == ISqrt(q)
        exact == (CvScale * CvScale * W) % den = 0 /\ F * F = q
        d == ((F * n) \div (1000 * S)) + 1
    IN  IF W = 0 THEN [ lo |-> 0, hi |-> 0 ]
        ELSE [ lo |-> IF F > d THEN F - d ELSE 0,
               hi |-> IF exact THEN F ELSE F + 1 ]

\* Mutant: the two outer labels exchanged
ConfidenceLabel_Swapped(x2, k) ==
    IF 10 * x2 < 6 * k * CvScale THEN "low"
    ELSE IF 10 * x2 > 12 * k * CvScale THEN "high"
    ELSE "medium"

\* Lines 135-139 for avg_cv = np.mean(category_variances), the mean of k
\* values whose sum is x2 / (2 CvScale):
\*     avg_cv < 0.3 -> 'high', avg_cv > 0.6 -> 'low', else 'medium'
ConfidenceLabel(x2, k) ==
    IF 10 * x2 < 6 * k * CvScale THEN "high"
    ELSE IF 10 * x2 > 12 * k * CvScale THEN "low"
    ELSE "medium"

\* The sum of the cv bounds over the categories `used`
CvSumBounds(rows, used) ==
    LET b == [ k \in 1..Len(EXPENSE_CATEGORIES) |->
                 IF EXPENSE_CATEGORIES[k] \in used
                 THEN CvBounds(rows, EXPENSE_CATEGORIES[k])
                 ELSE [ lo |-> 0, hi |-> 0 ] ]
    IN  [ lo |-> SumSeq([ k \in DOMAIN b |-> b[k].lo ]),
          hi |-> SumSeq([ k \in DOMAIN b |-> b[k].hi ]) ]

\* The confidence label (lines 124-139).  The sum of the cv's is known as
\* lying strictly between two integers (or as exactly 0); the thresholds are
\* integers at this resolution, so the labels the sum can get are those of
\* the half-integer points in between.
ConfidenceLabels(user_history, rows) ==
    IF HasLongHistory(Len(user_history))
    THEN LET used == ConfidenceCategories(rows)
             sum == CvSumBounds(rows, used)
         IN  IF used = {} THEN {"medium"}
             ELSE IF sum.lo = sum.hi
             THEN { ConfidenceLabel(2 * sum.lo, Cardinality(used)) }
             ELSE { ConfidenceLabel(x2, Cardinality(used)) :
                      x2 \in (2 * sum.lo + 1)..(2 * sum.hi - 1) }
    ELSE {"medium"}

\* f"{last_month_date.year}-{next_month_num:02d}"
NextMonthLabel(last_month_date, next_month_num) ==
    MonthStr(last_month_date.year, next_month_num)

\* Mutant: the lags taken from the first three rows
BuildFeatures_Head(sorted) ==
    LET last_3_months == Tail3_Head(sorted)
        last_month_date == ToDatetime(sorted[Len(sorted)].month)
    IN  [ col \in FeatureKeys(CatSet) |->
            IF col = <<"month_num">> THEN Frac(NextMonthNum(last_month_date), 1)
            ELSE LagEntries([ i \in DOMAIN last_3_months |->
                                last_3_months[i].amt[col[1]] ], col[2]) ]

\* The dict `features` built from the sorted frame (lines 87-104)
BuildFeatures(sorted) ==
    LET last_3_months == Tail3(sorted)
        last_month_date == ToDatetime(sorted[Len(sorted)].month)
    IN  [ col \in FeatureKeys(CatSet) |->
            IF col = <<"month_num">> THEN Frac(NextMonthNum(last_month_date), 1)
            ELSE LagEntries([ i \in DOMAIN last_3_months |->
                                last_3_months[i].amt[col[1]] ], col[2]) ]

\* Mutant: the length of the history tested before model_data
EntryCheck_LengthFirst(bank, n) ==
    IF InsufficientHistory(n) THEN "default"
    ELSE IF bank.t = "None" THEN "RuntimeError"
    ELSE "forecast"

\* Lines 46-56: what predict_expenses does on entry
EntryCheck(bank, n) ==
    IF bank.t = "None" THEN "RuntimeError"
    ELSE IF InsufficientHistory(n) THEN "default"
    ELSE "forecast"

\* The result returned for a history that is too short (lines 51-56)
DefaultResult ==
    [ predictions |-> [ cat \in CatSet |-> 0 ],
      total |-> 0,
      confidence |-> "low",
      message |-> "Need at least 3 months of history for accurate predictions" ]

\* predict_expenses(user_history) with the module global model_data; `sorted`
\* is the outcome of df.sort_values('month'), `confidence` the label that
\* lines 124-139 arrive at
predict_expenses(bank, user_history, sorted, confidence) ==
    IF EntryCheck(bank, Len(user_history)) = "RuntimeError"
    THEN [ out |-> Raise("RuntimeError"), locals |-> NoLocals ]
    ELSE IF EntryCheck(bank, Len(user_history)) = "default"
    THEN [ out |-> Return(DefaultResult), locals |-> NoLocals ]
    ELSE
    LET df == DataFrame(user_history)
        user_categories == UserCategories(df)
        last_month_date == ToDatetime(sorted[Len(sorted)].month)
        next_month_num == NextMonthNum(last_month_date)
        features == BuildFeatures(sorted)
        X == SelectFeatures(features, bank.feature_columns)
        base == [ t |-> "locals", entry |-> "predict_expenses",
                  sorted |-> sorted, features |-> features,
                  month_num |-> next_month_num,
                  X |-> X, seen |-> << >> ]
    IN  IF X.t = "raise" THEN [ out |-> X, locals |-> base ]
        ELSE
        LET loop == PredictLoop(bank.models, bank.scalers, EXPENSE_CATEGORIES,
                                user_categories, X.value.row, 1, EmptyDict, << >>)
            done == [ base EXCEPT !.seen = loop.seen ]
        IN  IF loop.t = "KeyError" THEN [ out |-> Raise("KeyError"), locals |-> done ]
            ELSE [ out |-> Return(
                     [ predictions |-> loop.predictions,
                       total |-> TotalOf(loop.predictions),
                       confidence |-> confidence,
                       history_months |-> Len(user_history),
                       next_month |-> NextMonthLabel(last_month_date, next_month_num) ]),
                   locals |-> done ]

\* The outcomes of df.sort_values('month') inside predict_expenses
SortedFrames(user_history) == SortValues(NumericRows(DataFrame(user_history)))

-----------------------------------------------------------------------------
(* api_server.py: the /api/predict handler *)

Http(status, json) == [t |-> "http", status |-> status, json |-> json]

\* Mutant: an empty list is let through to predict_expenses
predict_EmptyListPasses(data, bank, sorted, confidence) ==
    IF data.t = "empty" \/ ~ data.has_history
    THEN [ out |-> Http(400, [error |-> "Missing history data"]), locals |-> NoLocals ]
    ELSE IF ~ data.is_list
    THEN [ out |-> Http(400, [error |-> "History must be a non-empty list"]),
           locals |-> NoLocals ]
    ELSE IF \E i \in DOMAIN data.history : "month" \notin DOMAIN data.history[i]
    THEN [ out |-> Http(400, [error |-> "Each history entry must have a month field"]),
           locals |-> NoLocals ]
    ELSE LET r == predict_expenses(bank, data.history, sorted, confidence)
         IN  IF r.out.t = "raise"
             THEN [ out |-> Http(500, [error |-> r.out.exc]), locals |-> r.locals ]
             ELSE [ out |-> Http(200, r.out.value), locals |-> r.locals ]

\* predict(): `data` is request.get_json()
predict(data, bank, sorted, confidence) ==
    IF data.t = "empty" \/ ~ data.has_history
    THEN [ out |-> Http(400, [error |-> "Missing history data"]), locals |-> NoLocals ]
    ELSE IF ~ data.is_list \/ Len(data.history) = 0
    THEN [ out |-> Http(400, [error |-> "History must be a non-empty list"]),
           locals |-> NoLocals ]
    ELSE IF \E i \in DOMAIN data.history : "month" \notin DOMAIN data.history[i]
    THEN [ out |-> Http(400, [error |-> "Each history entry must have a month field"]),
           locals |-> NoLocals ]
    ELSE LET r == predict_expenses(bank, data.history, sorted, confidence)
         IN  IF r.out.t = "raise"
             THEN [ out |-> Http(500, [error |-> r.out.exc]), locals |-> r.locals ]
             ELSE [ out |-> Http(200, r.out.value), locals |-> r.locals ]

\* Whether predict() gets as far as df.sort_values
ReachesSort(data, bank) ==
    /\ data.t = "object" /\ data.has_history /\ data.is_list
    /\ \A i \in DOMAIN data.history : "month" \in DOMAIN data.history[i]
    /\ EntryCheck(bank, Len(data.history)) = "forecast"

\* The ways predict() can run on a body: the outcome of the sort and the
\* confidence label, where it gets that far
Runs(data, bank) ==
    IF ReachesSort(data, bank)
    THEN UNION { { [ sorted |-> s, confidence |-> c ] :
                     c \in ConfidenceLabels(data.history, s) } :
                 s \in SortedFrames(data.history) }
    ELSE { [ sorted |-> << >>, confidence |-> "medium" ] }

-----------------------------------------------------------------------------
(* Inputs *)

Rec(month, fields) == ("month" :> month) @@ fields

\* The records a caller sends
Records ==
    { Rec(MonthStr(2024, 10), ("Groceries" :> Num(30)) @@ ("Transportation" :> Num(19))
                                @@ ("Shopping" :> Num(0 - 7)) @@ ("Entertainment" :> Num(5))),
      Rec(MonthStr(2024, 11), ("Groceries" :> Num(21)) @@ ("Transportation" :> Num(0))),
      Rec(MonthStr(2024, 12), ("Groceries" :> Num(32)) @@ ("Dining Out" :> Str(<<97, 98, 99>>))),
      Rec(MonthStr(2025, 1), ("Groceries" :> Num(0)) @@ ("Transportation" :> Num(0))
                               @@ ("Shopping" :> Num(7))),
      Rec(MonthStr(2024, 12), ("Groceries" :> Str(<<50, 53>>)) @@ ("Utilities" :> Null)),
      Rec(MonthStr(2024, 11), EmptyDict),
      ("Groceries" :> Num(30)) }

RECURSIVE SeqsUpTo(_, _)
SeqsUpTo(S, n) ==
    IF n = 0 THEN { << >> }
    ELSE LET shorter == SeqsUpTo(S, n - 1)
         IN  shorter \cup { Append(h, x) : h \in { g \in shorter : Len(g) = n - 1 }, x \in S }

Histories == SeqsUpTo(Records, MaxLen)

\* The bodies of POST /api/predict
Bodies ==
    { [t |-> "empty", has_history |-> FALSE, is_list |-> FALSE, history |-> << >>],
      [t |-> "object", has_history |-> FALSE, is_list |-> FALSE, history |-> << >>],
      [t |-> "object", has_history |-> TRUE, is_list |-> FALSE, history |-> << >>] }
    \cup { [t |-> "object", has_history |-> TRUE, is_list |-> TRUE, history |-> h] :
              h \in Histories }

\* The rows of the DataFrames handed to predict_next_month: every row has
\* the same columns, all numeric
FrameColumns == {"month", "Groceries", "Shopping", "Utilities"}

FrameRow(y, m, g, s, ut) ==
    [ month |-> MonthStr(y, m),
      amt |-> ("Groceries" :> g) @@ ("Shopping" :> s) @@ ("Utilities" :> ut) ]

FrameRows ==
    { FrameRow(2024, 10, 30, 12, 0), FrameRow(2024, 11, 21, 0 - 3, 0),
      FrameRow(2024, 12, 32, 0, 0), FrameRow(2025, 1, 25, 7, 0),
      FrameRow(2024, 12, 0, 5, 0) }

Frames == { [columns |-> FrameColumns, rows |-> rs] : rs \in SeqsUpTo(FrameRows, MaxLen) }

\* Rows of DataFrames with a column for every category: `base` plus the
\* position of the category, and 0 for the categories in `unused`
FullRow(y, m, base, unused) ==
    [ month |-> MonthStr(y, m),
      amt |-> [ cat \in CatSet |-> IF cat \in unused THEN 0 ELSE base + CatIndex(cat) ] ]

FullRows ==
    { FullRow(2024, 10, 20, {}), FullRow(2024, 11, 5, {}),
      FullRow(2024, 12, 30, {"Groceries", "Subscriptions"}),
      FullRow(2025, 1, 10, {"Groceries", "Subscriptions"}) }

FullFrames ==
    { [columns |-> {"month"} \cup CatSet, rows |-> rs] : rs \in SeqsUpTo(FullRows, MaxLen) }

\* Histories of distinct months, up to ConfLen records long, in which the
\* amounts of two categories follow one of a few courses each
ConfLen == 6

Absent == [t |-> "absent", n |-> 0, s |-> << >>]

Courses == { "absent", "zeros", "junk", "const", "third", "sixth", "mid", "spiky", "text" }

\* The amount field of the record of month i: left out, a number, a text
\* that is no number, or null
CourseField(course, i) ==
    IF course = "absent" THEN Absent
    ELSE IF course = "zeros" THEN Num(0)
    ELSE IF course = "junk"
    THEN (IF i % 2 = 1 THEN Str(<< 110, 47, 97 >>) ELSE Null)
    ELSE IF course = "const" THEN Num(20)
    ELSE IF course = "third" THEN Num(<< 29, 11, 23, 17, 20, 20 >>[((i - 1) % 6) + 1])
    ELSE IF course = "sixth" THEN Num(<< 38, 2, 26, 14, 20, 20 >>[((i - 1) % 6) + 1])
    ELSE IF course = "mid" THEN Num(10 * (((i - 1) % 3) + 1))
    ELSE IF course = "spiky" THEN (IF i % 6 = 2 THEN Num(40) ELSE Num(0))
    ELSE IF i % 3 = 1 THEN Num(20)
    ELSE IF i % 3 = 2 THEN Str(<< 97, 98, 99 >>)
    ELSE IF i % 6 = 3 THEN Null
    ELSE Absent

Field(cat, v) == IF v.t = "absent" THEN EmptyDict ELSE (cat :> v)

ConfHistory(n, groceries, transportation) ==
    [ i \in 1..n |->
        Rec(MonthStr(2024, i),
            Field("Groceries", CourseField(groceries, i))
              @@ Field("Transportation", CourseField(transportation, i))) ]

ConfHistories ==
    { ConfHistory(n, g, t) : n \in 3..ConfLen, g \in Courses, t \in Courses }

ConfBodies ==
    { [t |-> "object", has_history |-> TRUE, is_list |-> TRUE, history |-> h] :
        h \in ConfHistories }

-----------------------------------------------------------------------------
(* The system *)

NoFile == [t |-> "NoFile"]
NoRequest == [t |-> "none"]
NoResponse == [t |-> "none"]

Init ==
    /\ predictor = NewPredictor
    /\ file = NoFile
    /\ server = "down"
    /\ model_data = None
    /\ request = NoRequest
    /\ response = NoResponse
    /\ locals = NoLocals

Idle == request = NoRequest /\ response = NoResponse

\* train_model.py __main__: predictor.train(df)
Train ==
    /\ server = "down" /\ Idle
    /\ predictor' = train(predictor, TrainingData, 5).self
    /\ UNCHANGED <<file, server, model_data, request, response, locals>>

\* predictor.save('expense_predictor_model.pkl')
Save ==
    /\ server = "down" /\ Idle
    /\ file' = save(predictor)
    /\ UNCHANGED <<predictor, server, model_data, request, response, locals>>

\* ExpensePredictor.load('expense_predictor_model.pkl')
Load ==
    /\ server = "down" /\ Idle
    /\ file # NoFile
    /\ predictor' = load(file)
    /\ UNCHANGED <<file, server, model_data, request, response, locals>>

\* predictor.predict_next_month(history), called by the training script
CallPredictNextMonth ==
    /\ server = "down" /\ Idle
    /\ \E df \in Frames :
         \E sorted \in (IF InsufficientHistory(Len(df.rows)) THEN { << >> }
                          ELSE SortValues(df.rows)) :
           LET r == predict_next_month(predictor, df, sorted)
           IN  /\ request' = [t |-> "predict_next_month", user_history |-> df]
               /\ response' = r.out
               /\ locals' = r.locals
    /\ UNCHANGED <<predictor, file, server, model_data>>

\* The module body of api_server.py (lines 21-28): the pickle, or None when
\* the file is not there
LoadModelData == IF file = NoFile THEN None ELSE file

\* python api_server.py: the module body, then __main__, which starts the
\* server only with a model
StartMain ==
    /\ server = "down" /\ Idle
    /\ model_data' = LoadModelData
    /\ server' = IF LoadModelData.t = "None" THEN "exited" ELSE "serving"
    /\ UNCHANGED <<predictor, file, request, response, locals>>

\* The module imported by a WSGI host (flask run, a test client): the module
\* body only; app serves whatever model_data is
StartImported ==
    /\ server = "down" /\ Idle
    /\ model_data' = LoadModelData
    /\ server' = "serving"
    /\ UNCHANGED <<predictor, file, request, response, locals>>

\* A client posts to /api/predict
SendPredict ==
    /\ server = "serving" /\ Idle
    /\ \E data \in Bodies : request' = [t |-> "POST /api/predict", data |-> data]
    /\ UNCHANGED <<predictor, file, server, model_data, response, locals>>

\* The handler predict() runs
HandlePredict ==
    /\ server = "serving"
    /\ request.t = "POST /api/predict" /\ response = NoResponse
    /\ \E run \in Runs(request.data, model_data) :
         LET r == predict(request.data, model_data, run.sorted, run.confidence)
         IN  /\ response' = r.out
             /\ locals' = r.locals
    /\ UNCHANGED <<predictor, file, server, model_data, request>>

\* The caller takes the outcome; the call's locals are gone
Finish ==
    /\ response # NoResponse
    /\ request' = NoRequest
    /\ response' = NoResponse
    /\ locals' = NoLocals
    /\ UNCHANGED <<predictor, file, server, model_data>>

Next ==
    \/ Train
    \/ Save
    \/ Load
    \/ CallPredictNextMonth
    \/ StartMain
    \/ StartImported
    \/ SendPredict
    \/ HandlePredict
    \/ Finish

Spec == Init /\ [][Next]_vars

\* A client posts a history of up to ConfLen months to /api/predict
SendLongHistory ==
    /\ server = "serving" /\ Idle
    /\ \E data \in ConfBodies : request' = [t |-> "POST /api/predict", data |-> data]
    /\ UNCHANGED <<predictor, file, server, model_data, response, locals>>

NextConf ==
    \/ Train
    \/ Save
    \/ StartMain
    \/ SendLongHistory
    \/ HandlePredict
    \/ Finish

\* The service under requests with longer histories
SpecConf == Init /\ [][NextConf]_vars

-----------------------------------------------------------------------------
(* api_server.py served by threads: app.run handles each request in a
   thread of its own, so calls of predict() overlap.  Here request, response
   and locals hold one entry per thread, and predict() advances in steps
   that each contain one read of the module global model_data. *)

MaxInFlight == 2

Threads == 1..MaxInFlight

IdleFrame ==
    [ pc |-> "idle",
      run |-> [ sorted |-> << >>, confidence |-> "medium" ],
      user_categories |-> {},
      features |-> << >>,
      X |-> << >>,
      k |-> 0,
      predictions |-> EmptyDict ]

\* What concurrent clients post: two histories of 3 months, one of them
\* latest first, and one that is too short
ConcHistories ==
    { << Rec(MonthStr(2024, 10), ("Groceries" :> Num(30)) @@ ("Transportation" :> Num(19))),
         Rec(MonthStr(2024, 11), ("Groceries" :> Num(21)) @@ ("Transportation" :> Num(0))),
         Rec(MonthStr(2024, 12), ("Groceries" :> Num(32))) >>,
      << Rec(MonthStr(2025, 1), ("Groceries" :> Num(0)) @@ ("Shopping" :> Num(7))),
         Rec(MonthStr(2024, 12), ("Groceries" :> Num(32))),
         Rec(MonthStr(2024, 11), ("Groceries" :> Num(21)) @@ ("Transportation" :> Num(0))) >>,
      << Rec(MonthStr(2024, 10), ("Groceries" :> Num(30))) >> }

ConcBodies ==
    { [t |-> "object", has_history |-> TRUE, is_list |-> TRUE, history |-> h] :
        h \in ConcHistories }

\* train_model.py has run (train, then save), or only save() of a new
\* predictor; no server process yet
InitConc ==
    /\ predictor = train(NewPredictor, TrainingData, 5).self
    /\ file \in { save(NewPredictor), save(train(NewPredictor, TrainingData, 5).self) }
    /\ server = "down"
    /\ model_data = None
    /\ request = [ w \in Threads |-> NoRequest ]
    /\ response = [ w \in Threads |-> NoResponse ]
    /\ locals = [ w \in Threads |-> IdleFrame ]

\* python api_server.py: the module body, then app.run
StartThreaded ==
    /\ server = "down"
    /\ model_data' = LoadModelData
    /\ server' = IF LoadModelData.t = "None" THEN "exited" ELSE "serving"
    /\ UNCHANGED <<predictor, file, request, response, locals>>

\* A request arrives and gets thread w
Accept(w) ==
    /\ server = "serving"
    /\ request[w] = NoRequest /\ response[w] = NoResponse
    /\ \E data \in ConcBodies :
          request' = [ request EXCEPT ![w] = [t |-> "POST /api/predict", data |-> data] ]
    /\ locals' = [ locals EXCEPT ![w] = [ IdleFrame EXCEPT !.pc = "begin" ] ]
    /\ UNCHANGED <<predictor, file, server, model_data, response>>

\* predict() up to line 104 of predict_expenses: the checks of the body, the
\* test of model_data (line 46), the short-history return, the frame, the
\* usage mask, the sort and the dict `features`
Begin(w) ==
    /\ locals[w].pc = "begin"
    /\ LET data == request[w].data
       IN  IF ReachesSort(data, model_data)
           THEN /\ \E run \in Runs(data, model_data) :
                      locals' = [ locals EXCEPT ![w] =
                                    [ IdleFrame EXCEPT
                                        !.pc = "select",
                                        !.run = run,
                                        !.user_categories = UserCategories(DataFrame(data.history)),
                                        !.features = BuildFeatures(run.sorted) ] ]
                /\ UNCHANGED response
           ELSE /\ response' = [ response EXCEPT ![w] =
                                   predict(data, model_data, << >>, "medium").out ]
                /\ locals' = [ locals EXCEPT ![w].pc = "done" ]
    /\ UNCHANGED <<predictor, file, server, model_data, request>>

\* Mutant: one dict of predictions for the whole module
PredictionsVar_Global(w) == 1

\* `predictions` (line 111) is a local variable: each call has its own
PredictionsVar(w) == w

\* Lines 107 and 111: X reads model_data['feature_columns']
Select(w) ==
    /\ locals[w].pc = "select"
    /\ LET X == SelectFeatures(locals[w].features, model_data.feature_columns)
       IN  IF X.t = "raise"
           THEN /\ response' = [ response EXCEPT ![w] = Http(500, [error |-> X.exc]) ]
                /\ locals' = [ locals EXCEPT ![w].pc = "done" ]
           ELSE /\ locals' = [ locals EXCEPT ![w].X = X.value.row,
                                             ![w].k = 1,
                                             ![w].pc = "loop",
                                             ![PredictionsVar(w)].predictions = EmptyDict ]
                /\ UNCHANGED response
    /\ UNCHANGED <<predictor, file, server, model_data, request>>

\* One iteration of the loop of lines 112-120: reads the scaler and the
\* model of the category from model_data
Category(w) ==
    /\ locals[w].pc = "loop"
    /\ locals[w].k <= Len(EXPENSE_CATEGORIES)
    /\ LET category == EXPENSE_CATEGORIES[locals[w].k]
       IN  IF category \notin locals[w].user_categories
           THEN /\ locals' = [ locals EXCEPT
                                 ![PredictionsVar(w)].predictions = (category :> 0) @@ @,
                                 ![w].k = @ + 1 ]
                /\ UNCHANGED response
           ELSE IF \/ category \notin DOMAIN model_data.scalers
                   \/ category \notin DOMAIN model_data.models
           THEN /\ response' = [ response EXCEPT ![w] = Http(500, [error |-> "KeyError"]) ]
                /\ locals' = [ locals EXCEPT ![w].pc = "done" ]
           ELSE /\ locals' = [ locals EXCEPT
                                 ![PredictionsVar(w)].predictions =
                                     (category :>
                                        ClampRound(ModelPredict(
                                            model_data.models[category],
                                            ScalerTransform(model_data.scalers[category],
                                                            locals[w].X)))) @@ @,
                                 ![w].k = @ + 1 ]
                /\ UNCHANGED response
    /\ UNCHANGED <<predictor, file, server, model_data, request>>

\* Lines 122-147 and 195-197: the total, the confidence, the response
ReturnResult(w) ==
    /\ locals[w].pc = "loop"
    /\ locals[w].k > Len(EXPENSE_CATEGORIES)
    /\ LET predictions == locals[PredictionsVar(w)].predictions
           sorted == locals[w].run.sorted
           last_month_date == ToDatetime(sorted[Len(sorted)].month)
       IN  response' = [ response EXCEPT ![w] =
                           Http(200,
                                [ predictions |-> predictions,
                                  total |-> TotalOf(predictions),
                                  confidence |-> locals[w].run.confidence,
                                  history_months |-> Len(request[w].data.history),
                                  next_month |-> NextMonthLabel(last_month_date,
                                                                NextMonthNum(last_month_date)) ]) ]
    /\ locals' = [ locals EXCEPT ![w].pc = "done" ]
    /\ UNCHANGED <<predictor, file, server, model_data, request>>

\* The response is sent; the thread and its locals are gone
Deliver(w) ==
    /\ response[w] # NoResponse
    /\ request' = [ request EXCEPT ![w] = NoRequest ]
    /\ response' = [ response EXCEPT ![w] = NoResponse ]
    /\ locals' = [ locals EXCEPT ![w] = IdleFrame ]
    /\ UNCHANGED <<predictor, file, server, model_data>>

NextConc ==
    \/ StartThreaded
    \/ \E w \in Threads :
          \/ Accept(w)
          \/ Begin(w)
          \/ Select(w)
          \/ Category(w)
          \/ ReturnResult(w)
          \/ Deliver(w)

\* The service under overlapping requests
SpecConc == InitConc /\ [][NextConc]_vars

-----------------------------------------------------------------------------
(* train_model.py: train() with the iterations of its loop as tasks.  The
   loop of lines 69-119 takes the categories in the order of self.categories;
   here the iterations may be taken in any order and may overlap, each in two
   steps: the fit (lines 72-103), then the stores (lines 111-119).  The order
   of the code is one of these behaviours. *)

\* test_size as 1 / test_den: the default 0.2, and 0.5
TestDens == { 5, 2 }

\* The frame of a call of train(): `results` and one task per category
TrainFrame ==
    [ t |-> "train",
      results |-> EmptyDict,
      task |-> [ category \in CatSet |-> [ pc |-> "todo", fit |-> None ] ] ]

\* df_train (line 59) and X (line 65), computed once before the loop
TrainRows == FilterTrainRows(TrainingData)

TrainX == SelectRows(TrainRows, FeatureCols(EXPENSE_CATEGORIES))

\* What lines 72-103 compute for the category at position k: a function of
\* X, df_train, the category and test_size only
FitOf ==
    [ test_den \in TestDens |->
        [ k \in DOMAIN EXPENSE_CATEGORIES |->
            TrainCategory(TrainX, TrainRows, EXPENSE_CATEGORIES, k, test_den) ] ]

\* Mutant: the model and the scaler stored in every slot that exists
StoreFit_EverySlot(self, category, fit) ==
    [ self EXCEPT !.models = [ c \in DOMAIN @ \cup {category} |-> fit.model ],
                  !.scalers = [ c \in DOMAIN @ \cup {category} |-> fit.scaler ] ]

\* self.models[category] = model; self.scalers[category] = scaler
StoreFit(self, category, fit) ==
    [ self EXCEPT !.models = (category :> fit.model) @@ @,
                  !.scalers = (category :> fit.scaler) @@ @ ]

\* train(df, test_size) is called on the predictor: lines 59-67
BeginTrain ==
    /\ server = "down" /\ Idle
    /\ \E test_den \in TestDens :
          request' = [ t |-> "train", test_den |-> test_den, self |-> predictor ]
    /\ predictor' = [ predictor EXCEPT
                        !.feature_columns = List(FeatureCols(predictor.categories)) ]
    /\ locals' = TrainFrame
    /\ UNCHANGED <<file, server, model_data, response>>

\* Lines 72-103 for the category at position k: reads df_train and X
FitCategory(k) ==
    /\ request.t = "train" /\ response = NoResponse
    /\ locals.task[predictor.categories[k]].pc = "todo"
    /\ locals' = [ locals EXCEPT !.task[predictor.categories[k]] =
                     [ pc |-> "fitted",
                       fit |-> FitOf[request.test_den][k] ] ]
    /\ UNCHANGED <<predictor, file, server, model_data, request, response>>

\* Lines 111-119 for the category at position k
StoreCategory(k) ==
    /\ request.t = "train" /\ response = NoResponse
    /\ locals.task[predictor.categories[k]].pc = "fitted"
    /\ LET category == predictor.categories[k]
           fit == locals.task[category].fit
       IN  /\ predictor' = StoreFit(predictor, category, fit)
           /\ locals' = [ locals EXCEPT !.results = (category :> fit.metrics) @@ @,
                                        !.task[category].pc = "stored" ]
    /\ UNCHANGED <<file, server, model_data, request, response>>

\* Line 121: return results
ReturnTrain ==
    /\ request.t = "train" /\ response = NoResponse
    /\ \A category \in CatSet : locals.task[category].pc = "stored"
    /\ response' = Return(locals.results)
    /\ UNCHANGED <<predictor, file, server, model_data, request, locals>>

\* The columns of expense_training_data.csv that carry a plain label
CsvColumns ==
    { "user_id", "month", "month_index", "total", "year", "month_num" } \cup CatSet

\* df[df['user_id'] == user_id].sort_values('month_index')
UserData(df, user_id) ==
    LET mine == SelectSeq(df, LAMBDA row : row.user_id = user_id)
    IN  [ i \in DOMAIN mine |-> mine[RowOf(mine, user_id, i - 1)] ]

\* plot_predictions (lines 218-220): for a user and i from 3 on, the first
\* i months of the user are the history and month i is the one predicted
PlotPrediction ==
    /\ server = "down" /\ Idle
    /\ \E user_id \in 0..(TrainUsers - 1) :
         \E i \in 3..(TrainMonths - 1) :
           LET history == [ columns |-> CsvColumns,
                            rows |-> SubSeq(UserData(TrainingData, user_id), 1, i) ]
           IN  \E sorted \in SortValues(history.rows) :
                 LET r == predict_next_month(predictor, history, sorted)
                 IN  /\ request' = [t |-> "predict_next_month", user_history |-> history]
                     /\ response' = r.out
                     /\ locals' = r.locals
    /\ UNCHANGED <<predictor, file, server, model_data>>

\* predictor.predict_next_month(history) on a frame of the columns
\* ['month'] + EXPENSE_CATEGORIES, as __main__ builds it (lines 272-278)
PredictOnFullFrame ==
    /\ server = "down" /\ Idle
    /\ \E df \in FullFrames :
         \E sorted \in (IF InsufficientHistory(Len(df.rows)) THEN { << >> }
                          ELSE SortValues(df.rows)) :
           LET r == predict_next_month(predictor, df, sorted)
           IN  /\ request' = [t |-> "predict_next_month", user_history |-> df]
               /\ response' = r.out
               /\ locals' = r.locals
    /\ UNCHANGED <<predictor, file, server, model_data>>

NextTrain ==
    \/ BeginTrain
    \/ \E k \in DOMAIN EXPENSE_CATEGORIES : FitCategory(k) \/ StoreCategory(k)
    \/ ReturnTrain
    \/ PlotPrediction
    \/ PredictOnFullFrame
    \/ Finish

\* The training script, the categories trained in any order
SpecTrain == Init /\ [][NextTrain]_vars

-----------------------------------------------------------------------------
(* What the claims speak about *)

\* A POST /api/predict has been handled and its body passed the checks of
\* predict(), so predict_expenses ran on the history
ForecastCalled ==
    /\ request.t = "POST /api/predict"
    /\ response # NoResponse
    /\ request.data.t = "object" /\ request.data.has_history /\ request.data.is_list
    /\ Len(request.data.history) > 0
    /\ \A i \in DOMAIN request.data.history : "month" \in DOMAIN request.data.history[i]

\* predict_expenses returned a forecast built from models (not the
\* short-history default)
Forecast ==
    /\ ForecastCalled
    /\ response.status = 200
    /\ locals # NoLocals

\* predict_next_month returned its predictions
DirectForecast ==
    /\ request.t = "predict_next_month"
    /\ response.t = "return"

\* The amount a record states for a category, as a number: an absent field,
\* null and text that is no number count 0
StatedAmount(rec, cat) ==
    IF cat \notin DOMAIN rec THEN 0
    ELSE IF rec[cat].t = "num" THEN rec[cat].n
    ELSE IF rec[cat].t = "str" /\ IsDigits(rec[cat].s) THEN DigitsValue(rec[cat].s)
    ELSE 0

HistoricalTotal(history, cat) ==
    SumSeq([ i \in DOMAIN history |-> StatedAmount(history[i], cat) ])

SeenCategories == { locals.seen[i].category : i \in DOMAIN locals.seen }

SumOverCategories(f) == SumSeq([ k \in DOMAIN EXPENSE_CATEGORIES |-> f[EXPENSE_CATEGORIES[k]] ])

IsDefaultResult(json) ==
    /\ DOMAIN json.predictions = CatSet
    /\ \A cat \in CatSet : json.predictions[cat] = 0
    /\ json.total = 0
    /\ json.confidence = "low"
    /\ "message" \in DOMAIN json

-----------------------------------------------------------------------------
(* C1 *)

-----------------------------------------------------------------------------
(* C2 *)

\* C2: in every forecast over a history of length >= 3, a category whose
\* historical total is exactly 0 (absent categories included) is predicted 0
\* and its scaler and model are not evaluated; when exactly one category has
\* a positive total, the total of the forecast is that category's prediction.
C2_ZeroTotalForcedToZero ==
    Forecast =>
        LET h == request.data.history
            active == { cat \in CatSet : HistoricalTotal(h, cat) > 0 }
        IN  /\ \A cat \in CatSet :
                  HistoricalTotal(h, cat) = 0 =>
                      /\ response.json.predictions[cat] = 0
                      /\ cat \notin SeenCategories
            /\ \A cat \in active :
                  active = {cat} => response.json.total = response.json.predictions[cat]

\* A forecast with a single active category and a positive prediction, in
\* which a category that occurs in the records with total 0 would have got a
\* positive amount from its model
C2_Witness ==
    /\ Forecast
    /\ { cat \in CatSet : HistoricalTotal(request.data.history, cat) > 0 } = {"Groceries"}
    /\ response.json.predictions["Groceries"] > 0
    /\ \E i \in DOMAIN request.data.history :
          "Transportation" \in DOMAIN request.data.history[i]
    /\ HistoricalTotal(request.data.history, "Transportation") = 0
    /\ ModelPredict(model_data.models["Transportation"],
                    ScalerTransform(model_data.scalers["Transportation"],
                                    locals.X.value.row)) > 0
    /\ response.json.predictions["Transportation"] = 0

-----------------------------------------------------------------------------
(* C3 *)

\* C3: the total of every result is the sum of the 8 category predictions as
\* returned (rounded first, then summed); in predict_next_month the 'total'
\* entry sums the 8 category entries and not itself.
C3_TotalIsSumOfReturned ==
    /\ (ForecastCalled /\ response.status = 200) =>
          response.json.total = SumOverCategories(response.json.predictions)
    /\ DirectForecast =>
          /\ DOMAIN response.value = CatSet \cup {"total"}
          /\ response.value["total"] = SumOverCategories(response.value)

\* A forecast whose total differs from the rounded sum of the unrounded
\* model outputs
C3_Witness ==
    /\ Forecast
    /\ response.json.total > 0
    /\ response.json.total #
          Round2(SumSeq([ i \in DOMAIN locals.seen |->
                            IF locals.seen[i].pred > 0 THEN locals.seen[i].pred ELSE 0 ]))

-----------------------------------------------------------------------------
(* C4 *)

Max0(x) == IF x > 0 THEN x ELSE 0

\* What either entry point returned per category
ReturnedPredictions == IF DirectForecast THEN response.value ELSE response.json.predictions

\* The bank the call read
BankRead == IF DirectForecast THEN predictor ELSE model_data

\* C4: every predicted amount is >= 0 and has at most 2 decimals; for a
\* category that got a model prediction it is the model's output on the
\* scaled feature row, clamped at 0 and rounded to 2 decimals, in either
\* order of clamping and rounding.
C4_ClampedAndRounded ==
    /\ ((ForecastCalled /\ response.status = 200) \/ DirectForecast) =>
          \A cat \in CatSet :
              ReturnedPredictions[cat] >= 0 /\ ReturnedPredictions[cat] % 10 = 0
    /\ (Forecast \/ DirectForecast) =>
          \A i \in DOMAIN locals.seen :
              LET e == locals.seen[i]
              IN  /\ e.pred = ModelPredict(BankRead.models[e.category],
                                ScalerTransform(BankRead.scalers[e.category],
                                                locals.X.value.row))
                  /\ ReturnedPredictions[e.category] = Round2(Max0(e.pred))
                  /\ ReturnedPredictions[e.category] = Max0(Round2(e.pred))

\* A forecast in which the model of an active category put out a negative
\* amount, and another one an amount that is no multiple of 0.01
C4_Witness ==
    /\ Forecast
    /\ \E i \in DOMAIN locals.seen : locals.seen[i].pred < 0
    /\ \E i \in DOMAIN locals.seen : locals.seen[i].pred > 0 /\ locals.seen[i].pred % 10 # 0

-----------------------------------------------------------------------------
(* C5 *)

\* The calendar position of a month label
MonthOrdinal(label) == 12 * ToDatetime(label).year + ToDatetime(label).month

\* The labels of the history the call was given
GivenMonths ==
    IF request.t = "predict_next_month"
    THEN { request.user_history.rows[i].month : i \in DOMAIN request.user_history.rows }
    ELSE { request.data.history[i]["month"] : i \in DOMAIN request.data.history }

LastGivenMonth == CHOOSE l \in GivenMonths : \A o \in GivenMonths : MonthOrdinal(o) <= MonthOrdinal(l)

\* C5: for every history of length >= 3 the target month number is
\* (m % 12) + 1, m the month of the chronologically last record: within
\* 1..12, m + 1 up to November, 1 after December.
C5_TargetMonthNumber ==
    (locals # NoLocals) =>
        LET m == ToDatetime(LastGivenMonth).month
        IN  /\ locals.month_num \in 1..12
            /\ locals.month_num = (IF m = 12 THEN 1 ELSE m + 1)
            /\ FracEq(locals.features[<<"month_num">>], Frac(locals.month_num, 1))

C5_Witness ==
    /\ Forecast
    /\ ToDatetime(LastGivenMonth).month = 12
    /\ locals.month_num = 1

-----------------------------------------------------------------------------
(* C6 *)

\* C6: the label next_month of a forecast is the calendar month after the
\* last historical month: month 01 of year Y + 1 after month 12 of year Y,
\* month m + 1 of year Y otherwise.
C6_NextMonthLabelFollows ==
    Forecast =>
        LET d == ToDatetime(LastGivenMonth)
        IN  response.json.next_month =
                (IF d.month = 12 THEN MonthStr(d.year + 1, 1)
                 ELSE MonthStr(d.year, d.month + 1))

-----------------------------------------------------------------------------
(* C7 *)

\* The amount of a category in row i of the sorted frame of the call
SortedAmount(i, cat) ==
    IF cat \in DOMAIN locals.sorted[i].amt THEN locals.sorted[i].amt[cat] ELSE 0

GivenLen ==
    IF request.t = "predict_next_month" THEN Len(request.user_history.rows)
    ELSE Len(request.data.history)

\* C7: for every history of length >= 3 and every category, with the
\* history sorted ascending by month, lag1 is the amount in the most recent
\* record, lag2 in the second most recent, lag3 in the third most recent,
\* and rolling_avg_3 the mean of these three; no older record enters.
C7_LagsFromLastThree ==
    (locals # NoLocals) =>
        LET n == Len(locals.sorted)
        IN  /\ n = GivenLen /\ n >= 3
            /\ \A i \in 1..(n - 1) :
                  MonthOrdinal(locals.sorted[i].month) <= MonthOrdinal(locals.sorted[i + 1].month)
            /\ \A cat \in CatSet :
                  /\ FracEq(locals.features[<<cat, "lag1">>], Frac(SortedAmount(n, cat), 1))
                  /\ FracEq(locals.features[<<cat, "lag2">>], Frac(SortedAmount(n - 1, cat), 1))
                  /\ FracEq(locals.features[<<cat, "lag3">>], Frac(SortedAmount(n - 2, cat), 1))
                  /\ FracEq(locals.features[<<cat, "rolling_avg_3">>],
                            Frac(SortedAmount(n, cat) + SortedAmount(n - 1, cat)
                                   + SortedAmount(n - 2, cat), 3))

\* Four records whose Groceries amounts all differ
C7_Witness ==
    /\ Forecast
    /\ Len(locals.sorted) = 4
    /\ Cardinality({ SortedAmount(i, "Groceries") : i \in 1..4 }) = 4
    /\ locals.features[<<"Groceries", "lag3">>].n = SortedAmount(2, "Groceries")

-----------------------------------------------------------------------------
(* C8 *)

DistinctMonths(history) ==
    \A i, j \in DOMAIN history : i # j => history[i]["month"] # history[j]["month"]

\* C8: for a history of length >= 3 with distinct months, every order of
\* the records gives the feature vector of the ascending history, and
\* sorting and building again from the sorted history gives it again.
C8_OrderInsensitive ==
    (Forecast /\ DistinctMonths(request.data.history)) =>
        LET h == request.data.history
        IN  /\ \A i \in 1..(Len(locals.sorted) - 1) :
                  MonthOrdinal(locals.sorted[i].month) < MonthOrdinal(locals.sorted[i + 1].month)
            /\ \A p \in Permutations(DOMAIN h) :
                  \A again \in SortedFrames([ i \in DOMAIN h |-> h[p[i]] ]) :
                      BuildFeatures(again) = locals.features
            /\ \A again \in SortValues(locals.sorted) :
                  again = locals.sorted /\ BuildFeatures(again) = locals.features

\* Four records of distinct months, sent latest first
C8_Witness ==
    /\ Forecast
    /\ Len(request.data.history) = 4
    /\ DistinctMonths(request.data.history)
    /\ \A i \in 1..3 :
          MonthOrdinal(request.data.history[i]["month"]) >
              MonthOrdinal(request.data.history[i + 1]["month"])
    /\ locals.features[<<"Groceries", "lag1">>].n # locals.features[<<"Groceries", "lag3">>].n

-----------------------------------------------------------------------------
(* C9 *)

FullSchema ==
    {<<"month_num">>} \cup
    { <<cat, sfx>> : cat \in CatSet, sfx \in {"lag1", "lag2", "lag3", "rolling_avg_3"} }

\* The categories that occur in the history the call was given
GivenCategories ==
    IF request.t = "predict_next_month"
    THEN request.user_history.columns \cap CatSet
    ELSE { cat \in CatSet : \E i \in DOMAIN request.data.history :
                                cat \in DOMAIN request.data.history[i] }

\* A record as the numeric row it stands for
RowOfRecord(rec) ==
    [ month |-> rec["month"], amt |-> [ cat \in CatSet |-> StatedAmount(rec, cat) ] ]

\* C9: for every history of length >= 3 the feature vector has the fixed
\* schema of 33 entries (month_num and lag1, lag2, lag3, rolling_avg_3 of
\* each of the 8 categories) whichever categories occur in the input; the
\* four entries of a category absent from all records are 0, and a category
\* missing from a record counts 0 in that record.
C9_FullSchema ==
    (locals # NoLocals) =>
        /\ DOMAIN locals.features = FullSchema
        /\ Cardinality(DOMAIN locals.features) = 33
        /\ \A cat \in CatSet \ GivenCategories :
              \A sfx \in {"lag1", "lag2", "lag3", "rolling_avg_3"} :
                  locals.features[<<cat, sfx>>].n = 0
        /\ (request.t = "POST /api/predict") =>
              \E p \in Permutations(DOMAIN request.data.history) :
                  \A i \in DOMAIN request.data.history :
                      locals.sorted[i] = RowOfRecord(request.data.history[p[i]])

\* A forecast over records of which the last lacks Shopping, which an
\* earlier one of the last three states, while Healthcare occurs nowhere
C9_Witness ==
    /\ Forecast
    /\ "Healthcare" \notin GivenCategories
    /\ locals.features[<<"Healthcare", "rolling_avg_3">>].n = 0
    /\ "Shopping" \in GivenCategories
    /\ locals.features[<<"Shopping", "lag1">>].n = 0
    /\ locals.features[<<"Shopping", "lag2">>].n # 0
    /\ \E i \in DOMAIN request.data.history :
          "Shopping" \notin DOMAIN request.data.history[i]

-----------------------------------------------------------------------------
(* C10 *)

CategoryBlock(cat) ==
    << <<cat, "lag1">>, <<cat, "lag2">>, <<cat, "lag3">>, <<cat, "rolling_avg_3">> >>

CanonicalColumns ==
    << <<"month_num">> >>
      \o CategoryBlock("Groceries") \o CategoryBlock("Transportation")
      \o CategoryBlock("Entertainment") \o CategoryBlock("Dining Out")
      \o CategoryBlock("Utilities") \o CategoryBlock("Shopping")
      \o CategoryBlock("Healthcare") \o CategoryBlock("Subscriptions")

\* C10: the row handed to every scaler and model at inference has its
\* columns in the feature_columns order fixed at training: month_num, then
\* lag1, lag2, lag3, rolling_avg_3 of each category in the canonical order;
\* save() persists the order that prepare_features set during train().
C10_ColumnOrder ==
    /\ predictor.feature_columns.t = "list" =>
          predictor.feature_columns.v = CanonicalColumns
    /\ file # NoFile =>
          /\ file.feature_columns.t = "list" => file.feature_columns.v = CanonicalColumns
          /\ file.models # EmptyDict => file.feature_columns.t = "list"
    /\ (locals # NoLocals /\ locals.seen # << >>) =>
          /\ locals.X.value.cols = CanonicalColumns
          /\ locals.X.value.cols = BankRead.feature_columns.v
          /\ \A j \in DOMAIN CanonicalColumns :
                locals.X.value.row[j] = locals.features[CanonicalColumns[j]]
          /\ \A i \in DOMAIN locals.seen :
                locals.seen[i].X_scaled =
                    ScalerTransform(BankRead.scalers[locals.seen[i].category],
                                    locals.X.value.row)

\* A forecast from a bank that was trained, saved and loaded by the server
C10_Witness ==
    /\ Forecast
    /\ locals.seen # << >>
    /\ file # NoFile /\ model_data = file
    /\ model_data.feature_columns.t = "list"
    /\ Len(locals.X.value.row) = 33

-----------------------------------------------------------------------------
(* C11 *)

\* The history of the request as numeric rows, read from what the records state
StatedRows == [ i \in DOMAIN request.data.history |-> RowOfRecord(request.data.history[i]) ]

\* The categories with a nonzero historical total
ActiveCategories == { cat \in CatSet : HistoricalTotal(request.data.history, cat) # 0 }

\* C11: for every history of 3, 4 or 5 records the confidence label of the
\* forecast is "medium", whatever the amounts.
C11_MediumBelowSix ==
    (Forecast /\ Len(request.data.history) \in 3..5) =>
        response.json.confidence = "medium"

\* A forecast over 5 records whose average coefficient of variation is
\* above 0.6
C11_Witness ==
    /\ Forecast
    /\ Len(request.data.history) = 5
    /\ ActiveCategories # {}
    /\ 10 * CvSumBounds(StatedRows, ActiveCategories).lo
          > 6 * Cardinality(ActiveCategories) * CvScale
    /\ response.json.confidence = "medium"

-----------------------------------------------------------------------------
(* C12 *)

\* The label the claim gives to an average: x2 / (2 CvScale) is the sum of
\* the coefficients of variation of k categories
C12_Label(x2, k) ==
    IF 10 * x2 < 3 * (2 * CvScale * k) THEN "high"
    ELSE IF 10 * x2 > 6 * (2 * CvScale * k) THEN "low"
    ELSE "medium"

\* The labels the claim admits for the history of the request: the sum of
\* the coefficients of variation of the active categories lies strictly
\* between sum.lo and sum.hi, or is 0
C12_Labels ==
    LET sum == CvSumBounds(StatedRows, ActiveCategories)
        k == Cardinality(ActiveCategories)
    IN  IF sum.lo = sum.hi THEN { C12_Label(2 * sum.lo, k) }
        ELSE { C12_Label(x2, k) : x2 \in (2 * sum.lo + 1)..(2 * sum.hi - 1) }

\* C12: for every history of 6 or more records with an active category the
\* label follows from the average, over exactly the categories with a
\* nonzero total, of the coefficient of variation over the whole history:
\* "high" strictly below 0.3, "low" strictly above 0.6, "medium" otherwise.
C12_LabelFromAverage ==
    (Forecast /\ Len(request.data.history) >= 6 /\ ActiveCategories # {}) =>
        response.json.confidence \in C12_Labels

\* A forecast over 6 or more records in which one category is active, with
\* an average between the thresholds, and another occurs with total 0: an
\* average over both would be below 0.3
C12_Witness ==
    /\ Forecast
    /\ Len(request.data.history) >= 6
    /\ ActiveCategories = {"Groceries"}
    /\ "Transportation" \in GivenCategories
    /\ C12_Labels = {"medium"}
    /\ 10 * CvSumBounds(StatedRows, ActiveCategories).hi < 3 * (CvScale * 2)
    /\ response.json.confidence = "medium"

\* A forecast over 6 records of one active category whose deviation is
\* exactly 0.3 times its mean: the 1e-6 in the divisor puts it below 0.3
C12_WitnessNearThreshold ==
    /\ Forecast
    /\ Len(request.data.history) = 6
    /\ ActiveCategories = {"Groceries"}
    /\ 100 * SpreadOf(StatedRows, "Groceries")
          = 9 * 5 * HistoricalTotal(request.data.history, "Groceries")
                  * HistoricalTotal(request.data.history, "Groceries")
    /\ response.json.confidence = "high"

-----------------------------------------------------------------------------
(* C13 *)

Tier(label) == IF label = "low" THEN 1 ELSE IF label = "medium" THEN 2 ELSE 3

\* For every long-history input: the bounds of the sum of the coefficients
\* of variation over its active categories, their number, and the labels
\* the estimator gives
ConfTable ==
    [ h \in ConfHistories |->
        LET rows == [ i \in DOMAIN h |-> RowOfRecord(h[i]) ]
            used == { cat \in CatSet : HistoricalTotal(h, cat) # 0 }
        IN  [ k |-> Cardinality(used),
              sum |-> CvSumBounds(rows, used),
              labels |-> ConfidenceLabels(h, rows) ] ]

\* The average of a is certainly below the average of b
AverageBelow(a, b) ==
    /\ a.k > 0 /\ b.k > 0
    /\ \/ a.sum.hi * b.k < b.sum.lo * a.k
       \/ /\ a.sum.hi * b.k = b.sum.lo * a.k
          /\ (a.sum.lo < a.sum.hi \/ b.sum.lo < b.sum.hi)

\* C13: among histories of the same length (>= 3), one with a lower average
\* coefficient of variation never gets a strictly lower tier (low < medium
\* < high) than one with a higher average.
C13_Monotone ==
    Forecast =>
        LET h == request.data.history
        IN  \A other \in ConfHistories :
                Len(other) = Len(h) =>
                    /\ AverageBelow(ConfTable[h], ConfTable[other]) =>
                          \A l \in ConfTable[other].labels :
                              Tier(response.json.confidence) >= Tier(l)
                    /\ AverageBelow(ConfTable[other], ConfTable[h]) =>
                          \A l \in ConfTable[other].labels :
                              Tier(l) >= Tier(response.json.confidence)

\* A forecast labelled "low", and a history of the same length with a lower
\* average that is labelled "high"
C13_Witness ==
    /\ Forecast
    /\ response.json.confidence = "low"
    /\ \E other \in ConfHistories :
          /\ Len(other) = Len(request.data.history)
          /\ AverageBelow(ConfTable[other], ConfTable[request.data.history])
          /\ ConfTable[other].labels = {"high"}

-----------------------------------------------------------------------------
(* C14 *)

\* Every active category has the same amount in every record
ZeroVariance ==
    \A cat \in ActiveCategories :
        \A i, j \in DOMAIN request.data.history :
            StatedAmount(request.data.history[i], cat)
                = StatedAmount(request.data.history[j], cat)

-----------------------------------------------------------------------------
(* C15 *)

\* C15: with no model bank loaded (model_data is None), predict_expenses
\* raises RuntimeError("Model not loaded") for every history, of any length
\* and content, and returns no forecast; the caller of /api/predict gets an
\* error response and no predictions.
C15_NotLoadedAlwaysFails ==
    (ForecastCalled /\ model_data.t = "None") =>
        /\ response.status = 500
        /\ response.json.error = "RuntimeError"
        /\ "predictions" \notin DOMAIN response.json
        /\ locals = NoLocals

\* Requests with 3 or more records handled without a bank
C15_Witness ==
    /\ ForecastCalled
    /\ model_data.t = "None"
    /\ Len(request.data.history) >= 3
    /\ response.status = 500

-----------------------------------------------------------------------------
(* C16 *)

\* The feature schema of the serving code: the keys of `features` in the
\* order in which lines 96-104 insert them
ServingSchema == List(CanonicalColumns)

\* C16: a persisted artifact whose feature_columns is missing or differs
\* from the serving schema makes loading fail at startup, so the service
\* never serves with it and the mismatch is never first detected while a
\* request is handled.
C16_SchemaMismatchFailsAtLoad ==
    /\ (server = "serving" /\ model_data.t = "dict") =>
          model_data.feature_columns = ServingSchema
    /\ (ForecastCalled /\ response.status = 500 /\ locals # NoLocals) =>
          locals.X.t # "raise"

-----------------------------------------------------------------------------
(* C17 *)

\* An amount that is no number: null, or a text that does not read as one
Malformed(v) == v.t = "null" \/ (v.t = "str" /\ ~ IsDigits(v.s))

\* The record with 0 in the place of every amount that is missing or no
\* number
Zeroed(rec) ==
    [ key \in DOMAIN rec \cup CatSet |->
        IF key \notin DOMAIN rec THEN Num(0)
        ELSE IF key \in CatSet /\ Malformed(rec[key]) THEN Num(0)
        ELSE rec[key] ]

ZeroedBody(data) == [ data EXCEPT !.history = [ i \in DOMAIN @ |-> Zeroed(@[i]) ] ]

\* Everything predict() can come to on a body
Outcomes(data, bank) ==
    { predict(data, bank, run.sorted, run.confidence) : run \in Runs(data, bank) }

\* C17: over a history of 3 or more records, an amount that is missing or
\* no number counts as 0 in the usage mask, the lag and rolling features and
\* the confidence, and causes no failure: the call ends as it ends on the
\* history with 0 in the place of that amount, with a forecast when the
\* bank is trained.
C17_MalformedCountsZero ==
    (ForecastCalled /\ Len(request.data.history) >= 3 /\ model_data.t = "dict") =>
        /\ [ out |-> response, locals |-> locals ]
              \in Outcomes(ZeroedBody(request.data), model_data)
        /\ model_data.models # EmptyDict => response.status = 200

\* A forecast over 6 or more records in which a category has a text that is
\* no number in one record, null in another and is left out of a third, and
\* the zeros in their place take the label away from "high"
C17_Witness ==
    /\ Forecast
    /\ Len(request.data.history) >= 6
    /\ \E i, j, k \in DOMAIN request.data.history :
          /\ "Groceries" \in DOMAIN request.data.history[i]
          /\ request.data.history[i]["Groceries"].t = "str"
          /\ "Groceries" \in DOMAIN request.data.history[j]
          /\ request.data.history[j]["Groceries"].t = "null"
          /\ "Groceries" \notin DOMAIN request.data.history[k]
    /\ ActiveCategories = {"Groceries"}
    /\ locals.features[<<"Groceries", "lag1">>].n = 0
    /\ response.json.confidence = "low"

-----------------------------------------------------------------------------
(* C18 *)

\* C18: the bank is loaded at startup, before any request is handled, and
\* the service takes prediction requests only if that load succeeded: no
\* /api/predict request is in the hands of the service while model_data is
\* None.
C18_NoRequestWithoutBank ==
    (request.t = "POST /api/predict") => model_data.t # "None"

-----------------------------------------------------------------------------
(* C19 *)

\* What the request of thread w comes to when predict() runs on it alone
AloneOutcomes(w) ==
    { predict(request[w].data, model_data, run.sorted, run.confidence).out :
        run \in Runs(request[w].data, model_data) }

\* Every response given is the one the request gets when it runs alone, and
\* equal requests have equal responses
ResultsAsAlone ==
    /\ \A w \in Threads :
          response[w] # NoResponse => response[w] \in AloneOutcomes(w)
    /\ \A v, w \in Threads :
          (response[v] # NoResponse /\ response[w] # NoResponse /\ request[v] = request[w])
              => response[v] = response[w]

\* C19: a call of predict() changes neither the loaded bank nor the history
\* it was given nor anything that another call reads; under every
\* interleaving of the steps of overlapping calls each call returns what it
\* returns when run alone, and equal histories get equal results.
C19_CallsAreIndependent ==
    /\ []ResultsAsAlone
    /\ [][ /\ server = "serving" => (model_data' = model_data /\ file' = file)
            /\ \A w \in Threads :
                  (request[w] # NoRequest /\ response[w] = NoResponse)
                      => request'[w] = request[w] ]_vars

\* Thread 1 has answered with a forecast while thread 2 is in the middle of
\* the loop over the categories of another history
C19_Witness ==
    /\ response[1] # NoResponse
    /\ response[1].status = 200
    /\ response[1].json.total > 0
    /\ locals[2].pc = "loop"
    /\ locals[2].k = 5
    /\ request[2].data # request[1].data
    /\ \E category \in DOMAIN locals[2].predictions : locals[2].predictions[category] > 0

-----------------------------------------------------------------------------
(* C20 *)

\* Feature rows to predict on: the rows of the training corpus
SampleVectors == Range(SelectRows(TrainingData, CanonicalColumns))

\* predict(category, vector) of a bank
BankPredict(bank, category, X) ==
    ClampRound(ModelPredict(bank.models[category],
                            ScalerTransform(bank.scalers[category], X)))

SameBank(a, b) ==
    /\ a.models = b.models
    /\ a.scalers = b.scalers
    /\ a.feature_columns = b.feature_columns
    /\ a.categories = b.categories
    /\ \A category \in DOMAIN a.models :
          \A X \in SampleVectors :
              BankPredict(a, category, X) = BankPredict(b, category, X)

-----------------------------------------------------------------------------
(* C21 *)

\* train() as the code runs it, the categories in list order, on a new
\* predictor
SequentialTraining ==
    [ test_den \in TestDens |-> train(NewPredictor, TrainingData, test_den) ]

\* The slot of a category in a bank: its model and its scaler, where present
Slot(bank, category) ==
    [ model |-> IF category \in DOMAIN bank.models
                THEN bank.models[category] ELSE None,
      scaler |-> IF category \in DOMAIN bank.scalers
                 THEN bank.scalers[category] ELSE None ]

\* C21: training a category reads only the shared rows and writes only its
\* own model, scaler and results entry: in whatever order the categories
\* are trained, and however their training overlaps, what is fitted and
\* stored for a category is what train() in list order gives it, the slots
\* of categories not yet stored are as they were before the call, and when
\* train() returns the bank is the one of train() in list order, with
\* exactly one model and one scaler per category of the canonical list.
C21_TrainingIsolated ==
    (request.t = "train") =>
        LET seq == SequentialTraining[request.test_den]
        IN  /\ \A category \in CatSet :
                  LET task == locals.task[category]
                  IN  /\ task.pc # "todo" =>
                            /\ task.fit.model = seq.self.models[category]
                            /\ task.fit.scaler = seq.self.scalers[category]
                            /\ task.fit.metrics = seq.results[category]
                      /\ task.pc = "stored" =>
                            /\ Slot(predictor, category) = Slot(seq.self, category)
                            /\ category \in DOMAIN locals.results
                            /\ locals.results[category] = seq.results[category]
                      /\ task.pc # "stored" =>
                            /\ Slot(predictor, category) = Slot(request.self, category)
                            /\ category \notin DOMAIN locals.results
            /\ response # NoResponse =>
                  /\ predictor = train(request.self, TrainingData, request.test_den).self
                  /\ predictor.models = seq.self.models
                  /\ predictor.scalers = seq.self.scalers
                  /\ response.value = seq.results
                  /\ DOMAIN predictor.models = CatSet
                  /\ DOMAIN predictor.scalers = CatSet

\* A bank is trained again with another test_size; the last category of the
\* list is stored first while the first is fitted and not yet stored, and
\* the slot of the first still holds the model of the earlier training,
\* which differs from the new one
C21_Witness ==
    /\ request.t = "train"
    /\ request.self.models # EmptyDict
    /\ locals.task["Subscriptions"].pc = "stored"
    /\ locals.task["Groceries"].pc = "fitted"
    /\ locals.task["Transportation"].pc = "todo"
    /\ predictor.models["Groceries"] # locals.task["Groceries"].fit.model
    /\ predictor.scalers["Groceries"] # locals.task["Groceries"].fit.scaler

-----------------------------------------------------------------------------
(* C22 *)

\* The body has a 'history' that is a non-empty list of entries with a month
BodyPasses(data) ==
    /\ data.t = "object" /\ data.has_history /\ data.is_list
    /\ Len(data.history) > 0
    /\ \A i \in DOMAIN data.history : "month" \in DOMAIN data.history[i]

\* What the handler answers when it hands the history to predict_expenses
ForecastAnswers(data, bank) ==
    { LET r == predict_expenses(bank, data.history, run.sorted, run.confidence)
      IN  [ out |-> IF r.out.t = "raise" THEN Http(500, [error |-> r.out.exc])
                    ELSE Http(200, r.out.value),
            locals |-> r.locals ] : run \in Runs(data, bank) }

\* The answer to a request is a rejection with status 400 exactly when its
\* body does not pass the checks; a body that passes gets what
\* predict_expenses comes to
ChecksDecide ==
    IF BodyPasses(request.data)
    THEN /\ response.status # 400
         /\ [ out |-> response, locals |-> locals ]
               \in ForecastAnswers(request.data, model_data)
    ELSE /\ response.status = 400
         /\ DOMAIN response.json = {"error"}
         /\ locals = NoLocals

C22_WitnessShort ==
    /\ request.t = "POST /api/predict" /\ response # NoResponse
    /\ Len(request.data.history) = 1
    /\ BodyPasses(request.data)
    /\ model_data.t = "dict"
    /\ response.status = 200 /\ IsDefaultResult(response.json)

-----------------------------------------------------------------------------
(* C23 *)

\* predict_next_month has been called and has ended
DirectCall == request.t = "predict_next_month"

\* How a call of predict_next_month ends: on fewer than 3 rows with
\* ValueError and nothing built, on 3 or more never with ValueError
ValueErrorBelowThree ==
    DirectCall =>
        IF Len(request.user_history.rows) < 3
        THEN /\ response = Raise("ValueError")
             /\ locals = NoLocals
        ELSE /\ response # Raise("ValueError")
             /\ locals # NoLocals
             /\ DOMAIN locals.features = FullSchema

\* C23: predict_next_month raises the insufficient-history error
\* (ValueError) for every history of fewer than 3 records, before any
\* feature is built and before any scaler or model is touched, and leaves
\* models, scalers, feature_columns and categories of the predictor as they
\* were; for 3 or more records it never raises that error.
C23_ValueErrorBelowThree ==
    /\ []ValueErrorBelowThree
    /\ [][ (request'.t = "predict_next_month" /\ request.t # "predict_next_month")
              => predictor' = predictor ]_vars

\* Two rows handed to a predictor that was never trained: ValueError, where
\* the first read of feature_columns, a scaler or a model would have raised
\* KeyError
C23_Witness ==
    /\ DirectCall
    /\ Len(request.user_history.rows) = 2
    /\ predictor.models = EmptyDict
    /\ predictor.feature_columns = None
    /\ response = Raise("ValueError")

\* Three rows handed to the same predictor: KeyError, not ValueError
C23_WitnessThree ==
    /\ DirectCall
    /\ Len(request.user_history.rows) = 3
    /\ predictor.feature_columns = None
    /\ response = Raise("KeyError")

-----------------------------------------------------------------------------
(* C24 *)

\* The call in hand is one of plot_predictions: the history is the first
\* months of a user of the training dataset
PlotCall ==
    /\ request.t = "predict_next_month"
    /\ "month_index" \in request.user_history.columns
    /\ locals # NoLocals

\* The row of the training dataset for the month that the call predicts
TargetRow ==
    LET rows == request.user_history.rows
    IN  TrainingData[RowOf(TrainingData, rows[1].user_id, Len(rows))]

\* The lag and month_num columns of the training row are what inference
\* builds from the months before it
LagsAsInference ==
    PlotCall =>
        /\ TargetRow.month_index >= 3
        /\ FracEq(TargetRow.feat[<<"month_num">>], locals.features[<<"month_num">>])
        /\ \A cat \in CatSet : \A sfx \in {"lag1", "lag2", "lag3"} :
              FracEq(TargetRow.feat[<<cat, sfx>>], locals.features[<<cat, sfx>>])

\* C24: for every user and every training row at month_index i >= 3, the
\* lag1, lag2, lag3, rolling_avg_3 and month_num columns of the training
\* dataset equal what inference computes from the user's months before i;
\* the training rolling_avg_3 of a category is the mean of its lag1, lag2
\* and lag3 and does not include the amount of month i itself.
C24_TrainingFeaturesAsInference ==
    PlotCall =>
        /\ TargetRow.month_index >= 3
        /\ \A col \in FullSchema : FracEq(TargetRow.feat[col], locals.features[col])
        /\ \A cat \in CatSet :
              FracEq(TargetRow.feat[<<cat, "rolling_avg_3">>],
                     Frac(TargetRow.feat[<<cat, "lag1">>].n
                            + TargetRow.feat[<<cat, "lag2">>].n
                            + TargetRow.feat[<<cat, "lag3">>].n, 3))

-----------------------------------------------------------------------------
(* C25 *)

\* predict_next_month was called with 3 or more rows of a frame that has a
\* column for every category, on a trained predictor
FullFrameCall ==
    /\ request.t = "predict_next_month"
    /\ request.user_history.columns = {"month"} \cup CatSet
    /\ Len(request.user_history.rows) >= 3
    /\ predictor.models # EmptyDict

\* The rows of a frame as the list of records a client sends
RecordsOfFrame(df) ==
    [ i \in DOMAIN df.rows |->
        Rec(df.rows[i].month,
            [ cat \in df.columns \cap CatSet |-> Num(df.rows[i].amt[cat]) ]) ]

\* predict_expenses on the history of the call in hand, with the bank of
\* the predictor as model_data and the rows sorted as the call sorted them
ServedForecast ==
    predict_expenses(save(predictor), RecordsOfFrame(request.user_history),
                     locals.sorted, "medium")

FrameTotal(cat) == ColumnSum(request.user_history.rows, cat)

\* C25: on the same history of 3 or more records with numeric amounts and
\* the same bank, predict_expenses and predict_next_month build the same
\* feature row and return the same prediction for every category with a
\* positive historical total, and the same total when all 8 categories have
\* one; for a category whose total is 0, predict_expenses returns 0 and
\* predict_next_month the output of the model.
C25_EntryPointsAgree ==
    FullFrameCall =>
        /\ response.t = "return"
        /\ ServedForecast.out.t = "return"
        /\ locals.sorted \in SortedFrames(RecordsOfFrame(request.user_history))
        /\ ServedForecast.locals.features = locals.features
        /\ ServedForecast.locals.X = locals.X
        /\ \A cat \in CatSet :
              FrameTotal(cat) > 0 =>
                  ServedForecast.out.value.predictions[cat] = response.value[cat]
        /\ (\A cat \in CatSet : FrameTotal(cat) > 0) =>
              ServedForecast.out.value.total = response.value["total"]
        /\ \A cat \in CatSet :
              FrameTotal(cat) = 0 =>
                  /\ ServedForecast.out.value.predictions[cat] = 0
                  /\ response.value[cat] = BankPredict(predictor, cat, locals.X.value.row)

\* Four rows, sent latest first, in which every category has a positive
\* total: both entry points return the same positive total
C25_Witness ==
    /\ FullFrameCall
    /\ Len(request.user_history.rows) = 4
    /\ \A cat \in CatSet : FrameTotal(cat) > 0
    /\ \E i \in 1..3 :
          StrLess(request.user_history.rows[i + 1].month, request.user_history.rows[i].month)
    /\ response.value["total"] > 0
    /\ ServedForecast.out.value.total = response.value["total"]
    /\ \E cat \in CatSet : response.value[cat] > 0 /\ response.value[cat] < response.value["total"]

\* A history in which Groceries is never used: predict_next_month predicts
\* a positive amount for it, predict_expenses 0
C25_WitnessUnused ==
    /\ FullFrameCall
    /\ FrameTotal("Groceries") = 0
    /\ response.value["Groceries"] > 0
    /\ ServedForecast.out.value.predictions["Groceries"] = 0
    /\ ServedForecast.out.value.total < response.value["total"]

-----------------------------------------------------------------------------
(* C26 *)

\* No record of the history states an amount other than 0
AllZero ==
    \A i \in DOMAIN request.data.history :
        \A cat \in CatSet : StatedAmount(request.data.history[i], cat) = 0

\* C26: for every history of 6 or more records in which no category has a
\* positive total (every amount 0 or coerced to 0), the forecast of a
\* trained bank does not fail on the empty average: the confidence is
\* "medium", every prediction and the total are 0, no model is consulted,
\* and history_months is the number of records.
C26_AllZeroIsMedium ==
    ( /\ ForecastCalled
      /\ Len(request.data.history) >= 6
      /\ AllZero
      /\ model_data.t = "dict" /\ model_data.feature_columns.t = "list" ) =>
        /\ response.status = 200
        /\ response.json.confidence = "medium"
        /\ DOMAIN response.json.predictions = CatSet
        /\ \A cat \in CatSet : response.json.predictions[cat] = 0
        /\ response.json.total = 0
        /\ response.json.history_months = Len(request.data.history)
        /\ SeenCategories = {}

\* Six records in which Groceries is 0 throughout and Transportation is a
\* text that is no number or null throughout, served by a trained bank
C26_Witness ==
    /\ ForecastCalled
    /\ Len(request.data.history) = 6
    /\ AllZero
    /\ \A i \in DOMAIN request.data.history :
          /\ "Groceries" \in DOMAIN request.data.history[i]
          /\ request.data.history[i]["Groceries"] = Num(0)
          /\ "Transportation" \in DOMAIN request.data.history[i]
          /\ Malformed(request.data.history[i]["Transportation"])
    /\ model_data.t = "dict" /\ model_data.models # EmptyDict
    /\ response.status = 200
    /\ response.json.confidence = "medium"
    /\ response.json.history_months = 6

====
